---- MODULE Spec2Model ----
(***************************************************************************)
(* Collaborative Forms App: the realtime session coordinator.              *)
(*                                                                         *)
(* The server half (server.js, second part of src/App.jsx) keeps           *)
(* activeSessions (formId -> Map socketId -> session) and relays field     *)
(* events to socket.io rooms.  The client half (React component, first     *)
(* part of src/App.jsx) keeps activeUsers, lockedFields, typingUsers and   *)
(* formResponse and applies the relayed events to them.                    *)
(*                                                                         *)
(* Modelling decisions:                                                    *)
(*  - a client emit and the synchronous start of the server handler it     *)
(*    triggers are one step (socket.io delivers one socket's packets in    *)
(*    order); every await of a handler is a separate step of a task;       *)
(*  - server -> client events travel through one FIFO inbox per socket;    *)
(*  - a disconnect is the end of the page (the socket id never returns);   *)
(*  - joinedAt, last_updated and contributors carry no control flow and    *)
(*    are left out of the records.                                         *)
(***************************************************************************)
EXTENDS Integers, Sequences, FiniteSets, TLC

\* ------------------------------------------------------------------ bounds
MaxQueue == 2
MaxTasks == 2
MaxJoins == 3

Conns == {"s1", "s2", "s3"}
Forms == {"f1", "f2"}
FieldIds == {"email", "note"}
Names == {"X", "Y"}
Values == {"A", "a"}

\* ------------------------------------------------------- absent JS values
NoForm == [id |-> "none", fields |-> {}]
NoField == "none"
NoLock == [lockedBy |-> "", userId |-> 0]
NoUser == [id |-> 0, name |-> ""]
NoTyper == ""
Undefined == "undefined"
NoTimer == [formId |-> "none", userName |-> ""]

VARIABLES
  conn,            \* socket.io: socket id -> "open" | "closed"
  rooms,           \* socket.io: room form-<id> -> connected sockets in it
  activeSessions,  \* server: formId -> Map socketId -> session (insertion order)
  dbForms,         \* table forms: id -> exists, is_active, fields
  dbData,          \* table form_responses: form_id -> row present, data
  tasks,           \* server handlers suspended at an await
  inbox,           \* server -> client events not yet handled by the client
  user,            \* client: user state
  currentForm,     \* client: currentForm state (id and field list)
  formResponse,    \* client: formResponse state
  activeUsers,     \* client: activeUsers state
  lockedFields,    \* client: lockedFields state
  typingUsers,     \* client: typingUsers state
  focus,           \* client: the input that has the focus
  typingTimers,    \* client: typingTimers ref, with the values its callback closed over
  nextId,          \* ids handed out by generateUserId so far
  expected,        \* history: formId -> sockets that joined and have not left or disconnected
  departed         \* history: sessions removed by a disconnect, and who showed their locks

vars == <<conn, rooms, activeSessions, dbForms, dbData, tasks, inbox, user,
          currentForm, formResponse, activeUsers, lockedFields, typingUsers,
          focus, typingTimers, nextId, expected, departed>>

serverVars == <<rooms, activeSessions, dbForms, dbData>>
clientVars == <<user, currentForm, formResponse, activeUsers, lockedFields,
                typingUsers, focus, typingTimers>>

\* ---------------------------------------------------------- JS Map (ordered)
MapHas(m, k) == \E i \in 1..Len(m) : m[i].socketId = k

MapGet(m, k) == m[CHOOSE i \in 1..Len(m) : m[i].socketId = k]

\* a set that never replaces: the entry is always added
MapAppend(m, k, v) == Append(m, v)

MapSet(m, k, v) ==
  IF MapHas(m, k)
  THEN [i \in 1..Len(m) |-> IF m[i].socketId = k THEN v ELSE m[i]]
  ELSE Append(m, v)

MapDelete(m, k) == SelectSeq(m, LAMBDA e : e.socketId # k)

MapKeys(m) == {m[i].socketId : i \in 1..Len(m)}

\* the sessions of a form, empty when activeSessions has no entry for it
SessionsOf(f) == IF f \in DOMAIN activeSessions THEN activeSessions[f] ELSE <<>>

\* ------------------------------------------------------- socket.io emitters
IoTo(f) == rooms[f]

SocketTo(f, c) == rooms[f] \ {c}

SocketEmit(c) == IF conn[c] = "open" THEN {c} ELSE {}

CanEmit(to, n) == \A c \in to : Len(inbox[c]) + n <= MaxQueue

Emit(box, to, ev) == [c \in Conns |-> IF c \in to THEN Append(box[c], ev) ELSE box[c]]

\* ------------------------------------------------------------ field schema
FieldType(fieldId) == IF fieldId = "email" THEN "email" ELSE "text"

ToLower(v) == IF v = "A" THEN "a" ELSE v

Sanitize(fieldId, value) ==
  IF FieldType(fieldId) = "email" THEN ToLower(value) ELSE value

\* ------------------------------------------------------------------- Init
EmptyLocks == [fld \in FieldIds |-> NoLock]
EmptyTyping == [fld \in FieldIds |-> NoTyper]
EmptyResponse == [fld \in FieldIds |-> Undefined]
EmptyTimers == [fld \in FieldIds |-> NoTimer]

InitClients ==
  /\ user = [c \in Conns |-> NoUser]
  /\ currentForm = [c \in Conns |-> NoForm]
  /\ formResponse = [c \in Conns |-> EmptyResponse]
  /\ activeUsers = [c \in Conns |-> <<>>]
  /\ lockedFields = [c \in Conns |-> EmptyLocks]
  /\ typingUsers = [c \in Conns |-> EmptyTyping]
  /\ focus = [c \in Conns |-> NoField]
  /\ typingTimers = [c \in Conns |-> EmptyTimers]

\* two pages are open, one active form exists, nobody has joined
Init ==
  /\ conn = [c \in Conns |-> IF c = "s3" THEN "closed" ELSE "open"]
  /\ rooms = [f \in Forms |-> {}]
  /\ activeSessions = <<>>
  /\ dbForms = [f \in Forms |->
                  IF f = "f1"
                  THEN [exists |-> TRUE, is_active |-> TRUE, fields |-> FieldIds]
                  ELSE [exists |-> FALSE, is_active |-> FALSE, fields |-> {}]]
  /\ dbData = [f \in Forms |-> [row |-> f = "f1", data |-> EmptyResponse]]
  /\ tasks = {}
  /\ inbox = [c \in Conns |-> <<>>]
  /\ InitClients
  /\ nextId = 1
  /\ expected = [f \in Forms |-> {}]
  /\ departed = {}

\* ------------------------------------------------------- events and tasks
\* locked is history, not payload: the fieldUpdated of an update that was sent
\* while another participant had the focus of the field
NoEvFields == [activeUsers |-> <<>>, fieldId |-> NoField, value |-> Undefined,
               name |-> "", userId |-> 0, isTyping |-> FALSE, locked |-> FALSE,
               message |-> "", fields |-> {}]

PresenceEv(type, users) == [NoEvFields EXCEPT !.activeUsers = users] @@ [type |-> type]

FieldLockedEv(fieldId, lockedBy, userId) ==
  [NoEvFields EXCEPT !.fieldId = fieldId, !.name = lockedBy, !.userId = userId]
    @@ [type |-> "fieldLocked"]

FieldUnlockedEv(fieldId, userId) ==
  [NoEvFields EXCEPT !.fieldId = fieldId, !.userId = userId] @@ [type |-> "fieldUnlocked"]

UnlockAllEv(userId) == [NoEvFields EXCEPT !.userId = userId] @@ [type |-> "unlockAllFieldsForUser"]

TypingEv(fieldId, userName, isTyping) ==
  [NoEvFields EXCEPT !.fieldId = fieldId, !.name = userName, !.isTyping = isTyping]
    @@ [type |-> "userTypingUpdate"]

FieldUpdatedEv(fieldId, value, updatedBy, locked) ==
  [NoEvFields EXCEPT !.fieldId = fieldId, !.value = value, !.name = updatedBy,
                     !.locked = locked]
    @@ [type |-> "fieldUpdated"]

ErrorEv(message) == [NoEvFields EXCEPT !.message = message] @@ [type |-> "error"]

\* the messages of the error events
JoinRejected == "Form not found or inactive. Cannot join."
JoinFailed == "Failed to join form."
UpdateRejected == "Form not found or inactive. Cannot update."
FieldUnknown == "Field not found in form definition."
UpdateFailed == "Failed to update field."

FormStructureEv(fields) ==
  [NoEvFields EXCEPT !.fields = fields] @@ [type |-> "formStructureUpdated"]

FormDeactivatedEv == NoEvFields @@ [type |-> "formDeactivated"]

FormDeletedEv == NoEvFields @@ [type |-> "formDeleted"]

NoTaskFields == [conn |-> "s1", formId |-> "f1", userId |-> 0, userName |-> "",
                 fieldId |-> NoField, value |-> Undefined, found |-> FALSE,
                 insert |-> FALSE, data |-> EmptyResponse,
                 locked |-> FALSE, written |-> FALSE, fields |-> {},
                 frozen |-> FALSE, snapshot |-> <<>>]

JoinTask(c, f, userId, userName) ==
  [NoTaskFields EXCEPT !.conn = c, !.formId = f, !.userId = userId, !.userName = userName]
    @@ [kind |-> "join", pc |-> "query"]

\* locked (history): another participant had the focus of the field when the
\* update was sent; written (history): the database has executed the write
UpdateTask(c, f, fieldId, value, userId, userName, locked) ==
  [NoTaskFields EXCEPT !.conn = c, !.formId = f, !.userId = userId, !.userName = userName,
                       !.fieldId = fieldId, !.value = value, !.locked = locked]
    @@ [kind |-> "update", pc |-> "lookup"]

CleanupTask(c, f, session) ==
  [NoTaskFields EXCEPT !.conn = c, !.formId = f, !.userId = session.userId,
                       !.userName = session.userName]
    @@ [kind |-> "cleanup", pc |-> "emit"]

Session(c, userId, userName) == [socketId |-> c, userId |-> userId, userName |-> userName]

\* handlers suspended at an await, the disconnect closures apart
Pending == {t \in tasks : t.kind # "cleanup"}

\* ------------------------------------------------------------ client: join
\* joinForm (client): GET /api/forms/:code answered success, then setUser,
\* setCurrentForm, setFormResponse and emit('joinForm'); the server handler
\* runs up to its first await.
JoinForm(c, f, name) ==
  /\ conn[c] = "open"
  /\ currentForm[c] = NoForm
  /\ nextId <= MaxJoins
  /\ Cardinality(Pending) < MaxTasks
  /\ dbForms[f].exists /\ dbForms[f].is_active
  /\ tasks' = tasks \cup {JoinTask(c, f, nextId, name)}
  /\ user' = [user EXCEPT ![c] = [id |-> nextId, name |-> name]]
  /\ currentForm' = [currentForm EXCEPT ![c] = [id |-> f, fields |-> dbForms[f].fields]]
  /\ formResponse' = [formResponse EXCEPT ![c] =
                        IF dbData[f].row THEN dbData[f].data ELSE EmptyResponse]
  /\ nextId' = nextId + 1
  /\ UNCHANGED <<conn, serverVars, inbox, activeUsers, lockedFields, typingUsers,
                 focus, typingTimers, expected, departed>>

\* the check of the handler without the test of is_active
FormFoundAnyStatus(f) == dbForms[f].exists

\* if (!form || !form.is_active) of the joinForm handler, on the row it read
FormFound(f) == dbForms[f].exists /\ dbForms[f].is_active

\* socket.on('joinForm'): the forms query is answered
JoinQuery(t) ==
  /\ t.kind = "join" /\ t.pc = "query"
  /\ tasks' = (tasks \ {t}) \cup
       {[t EXCEPT !.pc = "resume", !.found = FormFound(t.formId)]}
  /\ UNCHANGED <<conn, serverVars, inbox, clientVars, nextId, expected, departed>>

\* activeSessions after the handler registered the session
JoinRegister(sessions, t) ==
  (t.formId :> MapSet(IF t.formId \in DOMAIN sessions THEN sessions[t.formId] ELSE <<>>,
                      t.conn, Session(t.conn, t.userId, t.userName)))
    @@ sessions

\* the snapshot taken before the session is registered
JoinSnapshotBefore(reg, t) == SessionsOf(t.formId)

\* const users = [...activeSessions.get(formId).values()] after the set
JoinSnapshot(reg, t) == reg[t.formId]

\* socket.on('joinForm'): the code after the await
JoinResume(t) ==
  /\ t.kind = "join" /\ t.pc = "resume"
  /\ tasks' = tasks \ {t}
  /\ IF ~ t.found
     THEN /\ CanEmit(SocketEmit(t.conn), 1)
          /\ inbox' = Emit(inbox, SocketEmit(t.conn), ErrorEv(JoinRejected))
          /\ UNCHANGED <<rooms, activeSessions, expected>>
     ELSE LET joined == [rooms EXCEPT ![t.formId] = @ \cup SocketEmit(t.conn)]
              reg == JoinRegister(activeSessions, t)
              users == JoinSnapshot(reg, t)
              others == joined[t.formId] \ {t.conn}
          IN /\ CanEmit(others \cup SocketEmit(t.conn), 1)
             /\ rooms' = joined
             /\ activeSessions' = reg
             /\ inbox' = Emit(Emit(inbox, others, PresenceEv("userJoined", users)),
                              SocketEmit(t.conn), PresenceEv("activeUsers", users))
             /\ expected' = [expected EXCEPT ![t.formId] =
                               IF /\ conn[t.conn] = "open"
                                  /\ currentForm[t.conn].id = t.formId
                                  /\ user[t.conn].id = t.userId
                               THEN @ \cup {t.conn} ELSE @]
  /\ UNCHANGED <<conn, dbForms, dbData, clientVars, nextId, departed>>

\* ----------------------------------------------------------- client: leave
\* the Logout/Back button: emit('leaveForm') and the reset of the form state.
\* The server registers no listener for 'leaveForm'.
LeaveForm(c) ==
  /\ conn[c] = "open"
  /\ currentForm[c] # NoForm
  /\ focus[c] = NoField
  /\ user' = [user EXCEPT ![c] = NoUser]
  /\ currentForm' = [currentForm EXCEPT ![c] = NoForm]
  /\ formResponse' = [formResponse EXCEPT ![c] = EmptyResponse]
  /\ activeUsers' = [activeUsers EXCEPT ![c] = <<>>]
  /\ lockedFields' = [lockedFields EXCEPT ![c] = EmptyLocks]
  /\ typingUsers' = [typingUsers EXCEPT ![c] = EmptyTyping]
  /\ expected' = [expected EXCEPT ![currentForm[c].id] = @ \ {c}]
  /\ UNCHANGED <<conn, serverVars, tasks, inbox, focus, typingTimers, nextId, departed>>

\* ------------------------------------------------------------- disconnect
\* a disconnect that leaves one room only
DisconnectSessionsOne(sessions, c) ==
  LET hit == {f \in DOMAIN sessions : MapHas(sessions[f], c)}
  IN IF hit = {} THEN sessions
     ELSE [sessions EXCEPT ![CHOOSE f \in hit : TRUE] = MapDelete(@, c)]

\* the sessions map after sessions.delete(socket.id) in every form
DisconnectSessions(sessions, c) ==
  [f \in DOMAIN sessions |-> MapDelete(sessions[f], c)]

\* the pages that show a lock held by userId
LockedAt(userId) ==
  {m \in Conns : \E fld \in FieldIds : lockedFields[m][fld].userId = userId}

\* socket.on('disconnect') up to the await inside its async closures; the
\* page is gone, socket.io has taken the socket out of its rooms.
Disconnect(c) ==
  /\ conn[c] = "open"
  /\ LET hit == {f \in DOMAIN activeSessions : MapHas(activeSessions[f], c)}
     IN /\ tasks' = tasks \cup {CleanupTask(c, f, MapGet(activeSessions[f], c)) : f \in hit}
        /\ departed' = departed \cup
             {[formId |-> f, userId |-> MapGet(activeSessions[f], c).userId,
               lockedAt |-> LockedAt(MapGet(activeSessions[f], c).userId)] : f \in hit}
  /\ activeSessions' = DisconnectSessions(activeSessions, c)
  /\ conn' = [conn EXCEPT ![c] = "closed"]
  /\ rooms' = [f \in Forms |-> rooms[f] \ {c}]
  /\ inbox' = [inbox EXCEPT ![c] = <<>>]
  /\ user' = [user EXCEPT ![c] = NoUser]
  /\ currentForm' = [currentForm EXCEPT ![c] = NoForm]
  /\ formResponse' = [formResponse EXCEPT ![c] = EmptyResponse]
  /\ activeUsers' = [activeUsers EXCEPT ![c] = <<>>]
  /\ lockedFields' = [lockedFields EXCEPT ![c] = EmptyLocks]
  /\ typingUsers' = [typingUsers EXCEPT ![c] = EmptyTyping]
  /\ focus' = [focus EXCEPT ![c] = NoField]
  /\ typingTimers' = [typingTimers EXCEPT ![c] = EmptyTimers]
  /\ expected' = [f \in Forms |-> expected[f] \ {c}]
  /\ UNCHANGED <<dbForms, dbData, nextId>>

\* the recipients of the two broadcasts of the disconnect closure
UserLeftTo(t) == SocketTo(t.formId, t.conn)

UnlockAllTo(t) == IoTo(t.formId)

\* a closure that reads a private copy of the Map instead of the Map itself
ClosureSessionsCopy(t) == t.snapshot

\* the sessions Map the closure holds: the Map of the registry, or the Map
\* that activeSessions.delete(formId) has taken out of it
ClosureSessions(t) == IF t.frozen THEN t.snapshot ELSE SessionsOf(t.formId)

\* a closure without the try/catch: a rejected title query ends it
CleanupRunsIfOk(ok) == ok

\* the try/catch around the title query: the closure goes on to its emits
\* whether the query resolved (ok) or rejected
CleanupRuns(ok) == TRUE

\* socket.on('disconnect'): the closure after its await: userLeft with the
\* sessions left now, then unlockAllFieldsForUser
CleanupEmit(t) ==
  /\ t.kind = "cleanup"
  /\ CanEmit(UserLeftTo(t) \cup UnlockAllTo(t), 2)
  /\ tasks' = tasks \ {t}
  /\ \E ok \in BOOLEAN :
       inbox' = IF CleanupRuns(ok)
                THEN Emit(Emit(inbox, UserLeftTo(t),
                               PresenceEv("userLeft", ClosureSessions(t))),
                          UnlockAllTo(t), UnlockAllEv(t.userId))
                ELSE inbox
  /\ UNCHANGED <<conn, serverVars, clientVars, nextId, expected, departed>>

\* ------------------------------------------------------ client: field events
\* renderField: isLocked, the input is disabled for this user
IsLocked(c, fld) ==
  /\ lockedFields[c][fld] # NoLock
  /\ lockedFields[c][fld].userId # user[c].id

\* io.to(room): a relay that reaches the sender as well
RelayToAll(f, c) == IoTo(f)

\* the recipients of the lock, unlock and typing relays
RelayTo(f, c) == SocketTo(f, c)

\* onFocus -> handleFieldFocus -> emit('lockField'); socket.on('lockField')
FocusField(c, fld) ==
  /\ conn[c] = "open"
  /\ fld \in currentForm[c].fields
  /\ focus[c] = NoField
  /\ ~ IsLocked(c, fld)
  /\ CanEmit(RelayTo(currentForm[c].id, c), 1)
  /\ focus' = [focus EXCEPT ![c] = fld]
  /\ inbox' = Emit(inbox, RelayTo(currentForm[c].id, c),
                   FieldLockedEv(fld, user[c].name, user[c].id))
  /\ UNCHANGED <<conn, serverVars, tasks, user, currentForm, formResponse, activeUsers,
                 lockedFields, typingUsers, typingTimers, nextId, expected, departed>>

\* onBlur -> handleFieldBlur -> emit('unlockField'); socket.on('unlockField')
BlurField(c) ==
  /\ conn[c] = "open"
  /\ focus[c] # NoField
  /\ currentForm[c] # NoForm
  /\ CanEmit(RelayTo(currentForm[c].id, c), 1)
  /\ focus' = [focus EXCEPT ![c] = NoField]
  /\ inbox' = Emit(inbox, RelayTo(currentForm[c].id, c),
                   FieldUnlockedEv(focus[c], user[c].id))
  /\ UNCHANGED <<conn, serverVars, tasks, user, currentForm, formResponse, activeUsers,
                 lockedFields, typingUsers, typingTimers, nextId, expected, departed>>

\* onKeyDown: handleTyping(true) and the one second timer; socket.on('userTyping')
KeyDown(c) ==
  /\ conn[c] = "open"
  /\ focus[c] # NoField
  /\ currentForm[c] # NoForm
  /\ ~ IsLocked(c, focus[c])
  /\ CanEmit(RelayTo(currentForm[c].id, c), 1)
  /\ typingTimers' = [typingTimers EXCEPT ![c][focus[c]] =
                        [formId |-> currentForm[c].id, userName |-> user[c].name]]
  /\ inbox' = Emit(inbox, RelayTo(currentForm[c].id, c),
                   TypingEv(focus[c], user[c].name, TRUE))
  /\ UNCHANGED <<conn, serverVars, tasks, user, currentForm, formResponse, activeUsers,
                 lockedFields, typingUsers, focus, nextId, expected, departed>>

\* the timer set by onKeyDown fires: handleTyping(false) of the render that
\* set it; socket.on('userTyping')
TypingTimeout(c, fld) ==
  /\ conn[c] = "open"
  /\ typingTimers[c][fld] # NoTimer
  /\ CanEmit(RelayTo(typingTimers[c][fld].formId, c), 1)
  /\ typingTimers' = [typingTimers EXCEPT ![c][fld] = NoTimer]
  /\ inbox' = Emit(inbox, RelayTo(typingTimers[c][fld].formId, c),
                   TypingEv(fld, typingTimers[c][fld].userName, FALSE))
  /\ UNCHANGED <<conn, serverVars, tasks, user, currentForm, formResponse, activeUsers,
                 lockedFields, typingUsers, focus, nextId, expected, departed>>

\* another participant of the form has the focus of the field
HeldByOther(c, f, fld) ==
  \E a \in Conns \ {c} : focus[a] = fld /\ currentForm[a].id = f

\* onChange -> updateField (client): the optimistic setFormResponse and
\* emit('updateField'); the server handler runs up to its first await
ChangeField(c, v) ==
  /\ conn[c] = "open"
  /\ focus[c] # NoField
  /\ currentForm[c] # NoForm
  /\ ~ IsLocked(c, focus[c])
  /\ Cardinality(Pending) < MaxTasks
  /\ LET t == UpdateTask(c, currentForm[c].id, focus[c], v, user[c].id, user[c].name,
                         HeldByOther(c, currentForm[c].id, focus[c]))
     IN /\ t \notin tasks
        /\ tasks' = tasks \cup {t}
  /\ formResponse' = [formResponse EXCEPT ![c][focus[c]] = v]
  /\ UNCHANGED <<conn, serverVars, inbox, user, currentForm, activeUsers, lockedFields,
                 typingUsers, focus, typingTimers, nextId, expected, departed>>

\* ------------------------------------------------- server: updateField task
\* the first check after the forms query: form found and active
FormUsable(t) == dbForms[t.formId].exists /\ dbForms[t.formId].is_active

\* the checks of the handler without the lookup of the field in form.fields
UpdateValidAnyField(t) == dbForms[t.formId].exists /\ dbForms[t.formId].is_active

\* the checks of the handler with a check of the lock added
UpdateValidUnlocked(t) ==
  /\ dbForms[t.formId].exists
  /\ dbForms[t.formId].is_active
  /\ t.fieldId \in dbForms[t.formId].fields
  /\ ~ t.locked

\* the checks of the handler refusing a sender that has been sent an error
UpdateValidNoRetry(t) ==
  /\ dbForms[t.formId].exists
  /\ dbForms[t.formId].is_active
  /\ t.fieldId \in dbForms[t.formId].fields
  /\ \A i \in 1..Len(inbox[t.conn]) : inbox[t.conn][i].type # "error"

\* the checks after the forms query: form found and active, field in the schema
UpdateValid(t) ==
  /\ dbForms[t.formId].exists
  /\ dbForms[t.formId].is_active
  /\ t.fieldId \in dbForms[t.formId].fields

\* the handler with the broadcast moved before the write
UpdateOrderEmitFirst == <<"lookup", "select", "emit", "write">>

\* socket.on('updateField'): the order of the awaited steps of the handler
UpdateOrder == <<"lookup", "select", "write", "emit">>

UpdatePcAfter(pc) ==
  LET i == CHOOSE j \in 1..Len(UpdateOrder) : UpdateOrder[j] = pc
  IN IF i = Len(UpdateOrder) THEN "done" ELSE UpdateOrder[i + 1]

\* the tasks after task t has taken the step that leaves it as t2
Advance(t, t2) ==
  IF UpdatePcAfter(t.pc) = "done"
  THEN tasks \ {t}
  ELSE (tasks \ {t}) \cup {[t2 EXCEPT !.pc = UpdatePcAfter(t.pc)]}

\* tasks is a set: a run whose record would become equal to the record of
\* another run takes its step after that run has moved on
CanAdvance(t, t2) ==
  \/ UpdatePcAfter(t.pc) = "done"
  \/ [t2 EXCEPT !.pc = UpdatePcAfter(t.pc)] \notin tasks

\* socket.on('updateField'): the forms query is answered, validation, sanitizing
UpdateLookup(t) ==
  /\ t.kind = "update" /\ t.pc = "lookup"
  /\ IF UpdateValid(t)
     THEN /\ CanAdvance(t, [t EXCEPT !.value = Sanitize(t.fieldId, t.value)])
          /\ tasks' = Advance(t, [t EXCEPT !.value = Sanitize(t.fieldId, t.value)])
          /\ UNCHANGED inbox
     ELSE /\ CanEmit(SocketEmit(t.conn), 1)
          /\ tasks' = tasks \ {t}
          /\ inbox' = Emit(inbox, SocketEmit(t.conn),
                          ErrorEv(IF FormUsable(t) THEN FieldUnknown ELSE UpdateRejected))
  /\ UNCHANGED <<conn, serverVars, clientVars, nextId, expected, departed>>

\* socket.on('updateField'): the form_responses query is answered; the handler
\* sets the field in the row it read and sends that row back
UpdateSelect(t) ==
  /\ t.kind = "update" /\ t.pc = "select"
  /\ LET t2 == [t EXCEPT !.insert = ~ dbData[t.formId].row,
                         !.data = IF dbData[t.formId].row
                                  THEN [dbData[t.formId].data EXCEPT ![t.fieldId] = t.value]
                                  ELSE [EmptyResponse EXCEPT ![t.fieldId] = t.value]]
     IN /\ CanAdvance(t, t2)
        /\ tasks' = Advance(t, t2)
  /\ UNCHANGED <<conn, serverVars, inbox, clientVars, nextId, expected, departed>>

\* the INSERT or UPDATE of form_responses is accepted by the database
WriteAccepted(t) ==
  IF t.insert
  THEN dbForms[t.formId].exists /\ ~ dbData[t.formId].row
  ELSE dbData[t.formId].row

\* socket.on('updateField'): the database executes the INSERT or UPDATE
UpdateWrite(t) ==
  /\ t.kind = "update" /\ t.pc = "write"
  /\ IF WriteAccepted(t)
     THEN /\ dbData' = [dbData EXCEPT ![t.formId] = [row |-> TRUE, data |-> t.data]]
          /\ CanAdvance(t, [t EXCEPT !.written = TRUE])
          /\ tasks' = Advance(t, [t EXCEPT !.written = TRUE])
          /\ UNCHANGED inbox
     ELSE /\ CanEmit(SocketEmit(t.conn), 1)
          /\ tasks' = tasks \ {t}
          /\ inbox' = Emit(inbox, SocketEmit(t.conn), ErrorEv(UpdateFailed))
          /\ UNCHANGED dbData
  /\ UNCHANGED <<conn, rooms, activeSessions, dbForms, clientVars, nextId, expected, departed>>

\* the catch block with the report sent to the room
FailureToRoom(t) == IoTo(t.formId)

\* the recipients of the report of the catch block
FailureTo(t) == SocketEmit(t.conn)

\* socket.on('updateField'): a pool.query of the handler rejects; the catch
\* block reports to the socket of the sender
UpdateFail(t) ==
  /\ t.kind = "update" /\ t.pc \in {"lookup", "select", "write"}
  /\ CanEmit(FailureTo(t), 1)
  /\ tasks' = tasks \ {t}
  /\ inbox' = Emit(inbox, FailureTo(t), ErrorEv(UpdateFailed))
  /\ UNCHANGED <<conn, serverVars, clientVars, nextId, expected, departed>>

\* the recipients of fieldUpdated
FieldUpdatedTo(t) == IoTo(t.formId)

\* socket.on('updateField'): io.to(room).emit('fieldUpdated') after the write
UpdateEmit(t) ==
  /\ t.kind = "update" /\ t.pc = "emit"
  /\ CanEmit(FieldUpdatedTo(t), 1)
  /\ tasks' = Advance(t, t)
  /\ inbox' = Emit(inbox, FieldUpdatedTo(t),
                   FieldUpdatedEv(t.fieldId, t.value, t.userName, t.locked))
  /\ UNCHANGED <<conn, serverVars, clientVars, nextId, expected, departed>>

\* ------------------------------------------------------------ admin: REST
\* app.put('/api/forms/:formId/status') by the owner of the form: the UPDATE
\* of is_active and the formDeactivated broadcast
SetFormStatus(f, isActive) ==
  /\ dbForms[f].exists
  /\ dbForms[f].is_active # isActive
  /\ dbForms' = [dbForms EXCEPT ![f].is_active = isActive]
  /\ IF isActive
     THEN UNCHANGED inbox
     ELSE /\ CanEmit(IoTo(f), 1)
          /\ inbox' = Emit(inbox, IoTo(f), FormDeactivatedEv)
  /\ UNCHANGED <<conn, rooms, activeSessions, dbData, tasks, clientVars, nextId,
                 expected, departed>>

\* app.delete('/api/forms/:formId') suspended at its DELETE
DeleteTask(f) == [NoTaskFields EXCEPT !.formId = f] @@ [kind |-> "delete", pc |-> "delete"]

\* a disconnect closure of form f keeps the Map that the registry drops
Detach(t, f) ==
  IF t.kind = "cleanup" /\ t.formId = f /\ ~ t.frozen
  THEN [t EXCEPT !.frozen = TRUE, !.snapshot = SessionsOf(f)]
  ELSE t

\* app.delete('/api/forms/:formId') by the owner, after the ownership query:
\* the formDeleted broadcast and activeSessions.delete(formId)
DeleteForm(f) ==
  /\ dbForms[f].exists
  /\ DeleteTask(f) \notin tasks
  /\ Cardinality(Pending) < MaxTasks
  /\ CanEmit(IoTo(f), 1)
  /\ inbox' = Emit(inbox, IoTo(f), FormDeletedEv)
  /\ activeSessions' = [g \in DOMAIN activeSessions \ {f} |-> activeSessions[g]]
  /\ tasks' = {Detach(t, f) : t \in tasks} \cup {DeleteTask(f)}
  /\ UNCHANGED <<conn, rooms, dbForms, dbData, clientVars, nextId, expected, departed>>

\* app.delete('/api/forms/:formId'): DELETE FROM forms, cascading to form_responses
DeleteRow(t) ==
  /\ t.kind = "delete"
  /\ tasks' = tasks \ {t}
  /\ dbForms' = [dbForms EXCEPT ![t.formId] =
                   [exists |-> FALSE, is_active |-> FALSE, fields |-> {}]]
  /\ dbData' = [dbData EXCEPT ![t.formId] = [row |-> FALSE, data |-> EmptyResponse]]
  /\ UNCHANGED <<conn, rooms, activeSessions, inbox, clientVars, nextId, expected, departed>>

\* the field lists the owner saves in the form builder
Schemas == {{"email"}, {"email", "note"}}

FieldsTask(f, fields) ==
  [NoTaskFields EXCEPT !.formId = f, !.fields = fields] @@ [kind |-> "fields", pc |-> "select"]

\* response data without the values of fields that are not in the field list
CleanedData(data, fields) ==
  [fld \in FieldIds |-> IF fld \in fields THEN data[fld] ELSE Undefined]

\* app.put('/api/forms/:formId/fields') by the owner: the UPDATE of forms.fields
SetFields(f, fields) ==
  /\ dbForms[f].exists
  /\ dbForms[f].fields # fields
  /\ Cardinality(Pending) < MaxTasks
  /\ FieldsTask(f, fields) \notin tasks
  /\ dbForms' = [dbForms EXCEPT ![f].fields = fields]
  /\ tasks' = tasks \cup {FieldsTask(f, fields)}
  /\ UNCHANGED <<conn, rooms, activeSessions, dbData, inbox, clientVars, nextId,
                 expected, departed>>

\* app.put('/api/forms/:formId/fields'): the form_responses query is answered
FieldsSelect(t) ==
  /\ t.kind = "fields" /\ t.pc = "select"
  /\ tasks' = (tasks \ {t}) \cup
       {[t EXCEPT !.pc = IF dbData[t.formId].row THEN "write" ELSE "emit",
                  !.data = CleanedData(dbData[t.formId].data, t.fields)]}
  /\ UNCHANGED <<conn, serverVars, inbox, clientVars, nextId, expected, departed>>

\* app.put('/api/forms/:formId/fields'): the UPDATE of form_responses.data
FieldsWrite(t) ==
  /\ t.kind = "fields" /\ t.pc = "write"
  /\ tasks' = (tasks \ {t}) \cup {[t EXCEPT !.pc = "emit"]}
  /\ dbData' = [dbData EXCEPT ![t.formId] =
                  IF @.row THEN [row |-> TRUE, data |-> t.data] ELSE @]
  /\ UNCHANGED <<conn, rooms, activeSessions, dbForms, inbox, clientVars, nextId,
                 expected, departed>>

\* the recipients of formStructureUpdated
StructureTo(t) == IoTo(t.formId)

\* app.put('/api/forms/:formId/fields'): io.to(room).emit('formStructureUpdated')
FieldsEmit(t) ==
  /\ t.kind = "fields" /\ t.pc = "emit"
  /\ CanEmit(StructureTo(t), 1)
  /\ tasks' = tasks \ {t}
  /\ inbox' = Emit(inbox, StructureTo(t), FormStructureEv(t.fields))
  /\ UNCHANGED <<conn, serverVars, clientVars, nextId, expected, departed>>

\* ------------------------------------------------------ client: listeners
\* socket.on('fieldLocked')
OnFieldLocked(locks, ev) ==
  [locks EXCEPT ![ev.fieldId] = [lockedBy |-> ev.name, userId |-> ev.userId]]

\* a fieldUnlocked listener that leaves the lock in place
OnFieldUnlockedKeep(locks, ev) == locks

\* socket.on('fieldUnlocked')
OnFieldUnlocked(locks, ev) == [locks EXCEPT ![ev.fieldId] = NoLock]

\* the filter of unlockAllFieldsForUser with its test inverted
OnUnlockAllInverted(locks, ev) ==
  [fld \in FieldIds |-> IF locks[fld].userId = ev.userId THEN locks[fld] ELSE NoLock]

\* an unlockAllFieldsForUser listener that drops every lock
OnUnlockAllClear(locks, ev) == EmptyLocks

\* socket.on('unlockAllFieldsForUser')
OnUnlockAll(locks, ev) ==
  [fld \in FieldIds |-> IF locks[fld].userId # ev.userId THEN locks[fld] ELSE NoLock]

\* socket.on('userTypingUpdate')
OnTyping(typing, ev) ==
  [typing EXCEPT ![ev.fieldId] = IF ev.isTyping THEN ev.name ELSE NoTyper]

\* socket.on('fieldUpdated')
OnFieldUpdated(resp, ev) == [resp EXCEPT ![ev.fieldId] = ev.value]

\* socket.on('formStructureUpdated'): only currentForm.fields is replaced
OnStructure(form, ev) == IF form # NoForm THEN [form EXCEPT !.fields = ev.fields] ELSE form

\* the client handles the oldest event of its socket; an input that the new
\* field list no longer renders is unmounted without a blur event
Deliver(c) ==
  /\ conn[c] = "open"
  /\ inbox[c] # <<>>
  /\ LET ev == Head(inbox[c])
     IN /\ activeUsers' = [activeUsers EXCEPT ![c] =
             IF ev.type \in {"userJoined", "userLeft", "activeUsers"}
             THEN ev.activeUsers ELSE @]
        /\ lockedFields' = [lockedFields EXCEPT ![c] =
             CASE ev.type = "fieldLocked" -> OnFieldLocked(@, ev)
               [] ev.type = "fieldUnlocked" -> OnFieldUnlocked(@, ev)
               [] ev.type = "unlockAllFieldsForUser" -> OnUnlockAll(@, ev)
               [] OTHER -> @]
        /\ typingUsers' = [typingUsers EXCEPT ![c] =
             IF ev.type = "userTypingUpdate" THEN OnTyping(@, ev) ELSE @]
        /\ formResponse' = [formResponse EXCEPT ![c] =
             IF ev.type = "fieldUpdated" THEN OnFieldUpdated(@, ev) ELSE @]
        /\ currentForm' = [currentForm EXCEPT ![c] =
             IF ev.type = "formStructureUpdated" THEN OnStructure(@, ev) ELSE @]
        /\ focus' = [focus EXCEPT ![c] =
             IF ev.type = "formStructureUpdated" /\ @ \notin OnStructure(currentForm[c], ev).fields
             THEN NoField ELSE @]
  /\ inbox' = [inbox EXCEPT ![c] = Tail(@)]
  /\ UNCHANGED <<conn, serverVars, tasks, user, typingTimers, nextId, expected, departed>>

\* ------------------------------------------------------------------- Next
Next ==
  \/ \E c \in Conns, f \in Forms, name \in Names : JoinForm(c, f, name)
  \/ \E t \in tasks : JoinQuery(t)
  \/ \E t \in tasks : JoinResume(t)
  \/ \E c \in Conns : LeaveForm(c)
  \/ \E c \in Conns : Disconnect(c)
  \/ \E t \in tasks : CleanupEmit(t)
  \/ \E c \in Conns, fld \in FieldIds : FocusField(c, fld)
  \/ \E c \in Conns : BlurField(c)
  \/ \E c \in Conns : KeyDown(c)
  \/ \E c \in Conns, fld \in FieldIds : TypingTimeout(c, fld)
  \/ \E c \in Conns, v \in Values : ChangeField(c, v)
  \/ \E t \in tasks : UpdateLookup(t)
  \/ \E t \in tasks : UpdateSelect(t)
  \/ \E t \in tasks : UpdateWrite(t)
  \/ \E t \in tasks : UpdateEmit(t)
  \/ \E t \in tasks : UpdateFail(t)
  \/ \E f \in Forms, b \in BOOLEAN : SetFormStatus(f, b)
  \/ \E f \in Forms : DeleteForm(f)
  \/ \E t \in tasks : DeleteRow(t)
  \/ \E f \in Forms, fields \in Schemas : SetFields(f, fields)
  \/ \E t \in tasks : FieldsSelect(t)
  \/ \E t \in tasks : FieldsWrite(t)
  \/ \E t \in tasks : FieldsEmit(t)
  \/ \E c \in Conns : Deliver(c)

Spec == Init /\ [][Next]_vars

\* ------------------------------------------------- presence: join and leave
\* the display name the user of a page enters, where a scenario fixes it
NameOf(c) == IF c = "s2" THEN "Y" ELSE "X"

NextPresence ==
  \/ \E c \in Conns, f \in Forms : JoinForm(c, f, NameOf(c))
  \/ \E t \in tasks : JoinQuery(t)
  \/ \E t \in tasks : JoinResume(t)
  \/ \E c \in Conns : LeaveForm(c)
  \/ \E c \in Conns : Disconnect(c)
  \/ \E t \in tasks : CleanupEmit(t)
  \/ \E c \in Conns : Deliver(c)

SpecPresence == Init /\ [][NextPresence]_vars

\* -------------------------------------- locks: joins, focus and disconnect
NextLocks ==
  \/ \E c \in Conns, f \in Forms : JoinForm(c, f, NameOf(c))
  \/ \E t \in tasks : JoinQuery(t)
  \/ \E t \in tasks : JoinResume(t)
  \/ \E c \in Conns, fld \in FieldIds : FocusField(c, fld)
  \/ \E c \in Conns : BlurField(c)
  \/ \E c \in Conns : Disconnect(c)
  \/ \E t \in tasks : CleanupEmit(t)
  \/ \E c \in Conns : Deliver(c)

SpecLocks == Init /\ [][NextLocks]_vars

\* ------------------------------------------- updates: edits of one field
IdOf(c) == CASE c = "s1" -> 1 [] c = "s2" -> 2 [] OTHER -> 3

PairUsers == <<Session("s1", 1, "X"), Session("s2", 2, "Y")>>

\* the pages s1 and s2 have joined form f1 one after the other and have
\* handled the presence events of the joins; s3 is not connected
InitPair ==
  /\ conn = [c \in Conns |-> IF c = "s3" THEN "closed" ELSE "open"]
  /\ rooms = [f \in Forms |-> IF f = "f1" THEN {"s1", "s2"} ELSE {}]
  /\ activeSessions = ("f1" :> PairUsers)
  /\ dbForms = [f \in Forms |->
                  IF f = "f1"
                  THEN [exists |-> TRUE, is_active |-> TRUE, fields |-> FieldIds]
                  ELSE [exists |-> FALSE, is_active |-> FALSE, fields |-> {}]]
  /\ dbData = [f \in Forms |-> [row |-> f = "f1", data |-> EmptyResponse]]
  /\ tasks = {}
  /\ inbox = [c \in Conns |-> <<>>]
  /\ user = [c \in Conns |-> IF c = "s3" THEN NoUser ELSE [id |-> IdOf(c), name |-> NameOf(c)]]
  /\ currentForm = [c \in Conns |->
                      IF c = "s3" THEN NoForm ELSE [id |-> "f1", fields |-> FieldIds]]
  /\ formResponse = [c \in Conns |-> EmptyResponse]
  /\ activeUsers = [c \in Conns |-> IF c = "s3" THEN <<>> ELSE PairUsers]
  /\ lockedFields = [c \in Conns |-> EmptyLocks]
  /\ typingUsers = [c \in Conns |-> EmptyTyping]
  /\ focus = [c \in Conns |-> NoField]
  /\ typingTimers = [c \in Conns |-> EmptyTimers]
  /\ nextId = 3
  /\ expected = [f \in Forms |-> IF f = "f1" THEN {"s1", "s2"} ELSE {}]
  /\ departed = {}

\* focus, edits and the updateField handler
NextEdit ==
  \/ \E c \in Conns : FocusField(c, "email")
  \/ \E c \in Conns : ChangeField(c, "A")
  \/ \E t \in tasks : UpdateLookup(t)
  \/ \E t \in tasks : UpdateSelect(t)
  \/ \E t \in tasks : UpdateWrite(t)
  \/ \E t \in tasks : UpdateEmit(t)
  \/ \E c \in Conns : Deliver(c)

\* edits while the owner may deactivate the form
NextUpdate ==
  \/ NextEdit
  \/ \E f \in Forms : SetFormStatus(f, FALSE)

SpecUpdate == InitPair /\ [][NextUpdate]_vars

\* edits while pages may disconnect
NextBroadcast ==
  \/ NextEdit
  \/ \E c \in Conns : Disconnect(c)
  \/ \E t \in tasks : CleanupEmit(t)

SpecBroadcast == InitPair /\ [][NextBroadcast]_vars

\* --------------------------------------- three participants in one room
JoinedUsers == <<Session("s1", 1, "X"), Session("s2", 2, "Y"), Session("s3", 3, "X")>>

\* three pages have joined form f1 one after the other and have handled the
\* presence events of the joins
InitRoom ==
  /\ conn = [c \in Conns |-> "open"]
  /\ rooms = [f \in Forms |-> IF f = "f1" THEN Conns ELSE {}]
  /\ activeSessions = ("f1" :> JoinedUsers)
  /\ dbForms = [f \in Forms |->
                  IF f = "f1"
                  THEN [exists |-> TRUE, is_active |-> TRUE, fields |-> FieldIds]
                  ELSE [exists |-> FALSE, is_active |-> FALSE, fields |-> {}]]
  /\ dbData = [f \in Forms |-> [row |-> f = "f1", data |-> EmptyResponse]]
  /\ tasks = {}
  /\ inbox = [c \in Conns |-> <<>>]
  /\ user = [c \in Conns |-> [id |-> IdOf(c), name |-> NameOf(c)]]
  /\ currentForm = [c \in Conns |-> [id |-> "f1", fields |-> FieldIds]]
  /\ formResponse = [c \in Conns |-> EmptyResponse]
  /\ activeUsers = [c \in Conns |-> JoinedUsers]
  /\ lockedFields = [c \in Conns |-> EmptyLocks]
  /\ typingUsers = [c \in Conns |-> EmptyTyping]
  /\ focus = [c \in Conns |-> NoField]
  /\ typingTimers = [c \in Conns |-> EmptyTimers]
  /\ nextId = 4
  /\ expected = [f \in Forms |-> IF f = "f1" THEN Conns ELSE {}]
  /\ departed = {}

\* the users of s1 and s2 edit the email field, the user of s3 watches
Editors == {"s1", "s2"}

NextRoom ==
  \/ \E c \in Editors : FocusField(c, "email")
  \/ \E c \in Editors : BlurField(c)
  \/ \E c \in Editors : KeyDown(c)
  \/ \E c \in Editors : TypingTimeout(c, "email")
  \/ \E c \in Conns : Disconnect(c)
  \/ \E t \in tasks : CleanupEmit(t)
  \/ \E c \in Conns : Deliver(c)

SpecRoom == InitRoom /\ [][NextRoom]_vars

\* ------------------------ joins while the owner deactivates or deletes
NextJoin ==
  \/ \E c \in Conns, f \in Forms : JoinForm(c, f, NameOf(c))
  \/ \E t \in tasks : JoinQuery(t)
  \/ \E t \in tasks : JoinResume(t)
  \/ \E f \in Forms : SetFormStatus(f, FALSE)
  \/ \E f \in Forms : DeleteForm(f)
  \/ \E t \in tasks : DeleteRow(t)
  \/ \E c \in Conns : Deliver(c)

SpecJoin == Init /\ [][NextJoin]_vars

\* ------------------------------------------- edits while queries may fail
\* the page that types while the other one watches
Typist == "s1"

NextFailure ==
  \/ FocusField(Typist, "email")
  \/ \E v \in Values : ChangeField(Typist, v)
  \/ \E t \in tasks : UpdateLookup(t)
  \/ \E t \in tasks : UpdateSelect(t)
  \/ \E t \in tasks : UpdateWrite(t)
  \/ \E t \in tasks : UpdateEmit(t)
  \/ \E t \in tasks : UpdateFail(t)
  \/ \E c \in Conns : Deliver(c)

SpecFailure == InitPair /\ [][NextFailure]_vars

\* ------------------------------------- edits while the owner edits the schema
NextSchema ==
  \/ \E c \in Conns : FocusField(c, "note")
  \/ \E c \in Conns : ChangeField(c, "A")
  \/ \E t \in tasks : UpdateLookup(t)
  \/ \E t \in tasks : UpdateSelect(t)
  \/ \E t \in tasks : UpdateWrite(t)
  \/ \E t \in tasks : UpdateEmit(t)
  \/ \E f \in Forms : SetFields(f, {"email"})
  \/ \E t \in tasks : FieldsSelect(t)
  \/ \E t \in tasks : FieldsWrite(t)
  \/ \E t \in tasks : FieldsEmit(t)
  \/ \E c \in Conns : Deliver(c)

SpecSchema == InitPair /\ [][NextSchema]_vars

\* ------------------------------ joins and edits that the server may refuse
NextErrors ==
  \/ \E c \in Conns, f \in Forms : JoinForm(c, f, NameOf(c))
  \/ \E t \in tasks : JoinQuery(t)
  \/ \E t \in tasks : JoinResume(t)
  \/ \E f \in Forms : SetFormStatus(f, FALSE)
  \/ FocusField(Typist, "email")
  \/ ChangeField(Typist, "A")
  \/ \E t \in tasks : UpdateLookup(t)
  \/ \E t \in tasks : UpdateSelect(t)
  \/ \E t \in tasks : UpdateWrite(t)
  \/ \E t \in tasks : UpdateEmit(t)
  \/ \E t \in tasks : UpdateFail(t)
  \/ \E c \in Conns : Deliver(c)

SpecErrors == Init /\ [][NextErrors]_vars

\* ----------------------------- two pages, each editing a field of its own
FieldOf(c) == IF c = "s2" THEN "note" ELSE "email"

NextFields ==
  \/ \E c \in Conns : FocusField(c, FieldOf(c))
  \/ \E c \in Conns : ChangeField(c, "A")
  \/ \E t \in tasks : UpdateLookup(t)
  \/ \E t \in tasks : UpdateSelect(t)
  \/ \E t \in tasks : UpdateWrite(t)
  \/ \E t \in tasks : UpdateEmit(t)
  \/ \E c \in Conns : Deliver(c)

SpecFields == InitPair /\ [][NextFields]_vars

\* ------------------------- disconnects in a room, with the event loop fair
NextCleanup ==
  \/ \E c \in Editors : FocusField(c, FieldOf(c))
  \/ \E c \in Conns : Disconnect(c)
  \/ \E t \in tasks : CleanupEmit(t)
  \/ \E c \in Conns : Deliver(c)

\* a settled query resumes its closure, a received event is handled
FairCleanup ==
  /\ SF_vars(\E t \in tasks : CleanupEmit(t))
  /\ \A c \in Conns : WF_vars(Deliver(c))

SpecCleanup == InitRoom /\ [][NextCleanup]_vars /\ FairCleanup

\* ------------------------------------------- two forms, pages that move
\* the owner has created two active forms; nobody has joined yet
InitForms ==
  /\ conn = [c \in Conns |-> IF c = "s3" THEN "closed" ELSE "open"]
  /\ rooms = [f \in Forms |-> {}]
  /\ activeSessions = <<>>
  /\ dbForms = [f \in Forms |-> [exists |-> TRUE, is_active |-> TRUE, fields |-> FieldIds]]
  /\ dbData = [f \in Forms |-> [row |-> TRUE, data |-> EmptyResponse]]
  /\ tasks = {}
  /\ inbox = [c \in Conns |-> <<>>]
  /\ InitClients
  /\ nextId = 1
  /\ expected = [f \in Forms |-> {}]
  /\ departed = {}

NextForms ==
  \/ \E c \in Conns, f \in Forms : JoinForm(c, f, NameOf(c))
  \/ \E t \in tasks : JoinQuery(t)
  \/ \E t \in tasks : JoinResume(t)
  \/ \E c \in Conns : LeaveForm(c)
  \/ \E c \in Conns : FocusField(c, "email")
  \/ \E c \in Conns : Deliver(c)

SpecForms == InitForms /\ [][NextForms]_vars

\* --------------------------------- a room whose editors take and release
NextLockCycle ==
  \/ \E c \in Editors : FocusField(c, "email")
  \/ \E c \in Editors : BlurField(c)
  \/ \E c \in Conns : Deliver(c)

SpecLockCycle == InitRoom /\ [][NextLockCycle]_vars

\* =================================================================== claims

\* C1: after any sequence of joinForm, leaveForm and disconnect on one form,
\* activeSessions of the form holds exactly the connections that joined and
\* have not since left or disconnected, each once.
C1_RegistryIsJoinedNotLeft ==
  \A f \in Forms :
    /\ MapKeys(SessionsOf(f)) = expected[f]
    /\ Len(SessionsOf(f)) = Cardinality(MapKeys(SessionsOf(f)))

\* the disconnect of departed session d has been handled by page m: the
\* closure has emitted and m has handled its unlockAllFieldsForUser
CleanupDelivered(d, m) ==
  /\ ~ \E t \in tasks : t.kind = "cleanup" /\ t.formId = d.formId /\ t.userId = d.userId
  /\ ~ \E i \in 1..Len(inbox[m]) :
         /\ inbox[m][i].type = "unlockAllFieldsForUser"
         /\ inbox[m][i].userId = d.userId

C3_LeaveIsCleanup ==
  [][\A c \in Conns :
       (currentForm[c] # NoForm /\ currentForm'[c] = NoForm /\ conn'[c] = "open")
         => LET f == currentForm[c].id
            IN MapHas(SessionsOf(f), c)
                 => /\ ~ MapHas(activeSessions'[f], c)
                    /\ \E t \in tasks' : /\ t.kind = "cleanup"
                                         /\ t.conn = c
                                         /\ t.formId = f]_vars

\* C7: no two distinct participants are recorded as holder of the same field
\* across the lock states of the pages of one form.
C7_OneHolderPerField ==
  \A m1, m2 \in Conns, fld \in FieldIds :
    ( /\ currentForm[m1] # NoForm
      /\ currentForm[m1].id = currentForm[m2].id
      /\ lockedFields[m1][fld] # NoLock
      /\ lockedFields[m2][fld] # NoLock )
      => lockedFields[m1][fld].userId = lockedFields[m2][fld].userId

\* C8: the holder of every recorded lock is a participant present in the
\* registry of the form the page is in.
C8_HolderIsPresent ==
  \A m \in Conns, fld \in FieldIds :
    (currentForm[m] # NoForm /\ lockedFields[m][fld] # NoLock)
      => \E i \in 1..Len(SessionsOf(currentForm[m].id)) :
           SessionsOf(currentForm[m].id)[i].userId = lockedFields[m][fld].userId

\* page m handles the oldest event of its socket in this step
Handles(m) ==
  /\ conn'[m] = "open"
  /\ inbox[m] # <<>>
  /\ inbox'[m] = Tail(inbox[m])

\* C4: release is a no-op when called by a non-holder: a fieldUnlocked caused
\* by participant B leaves a lock that page m records for another
\* participant A in place.
C4_ReleaseByNonHolderIsNoOp ==
  [][\A m \in Conns :
       (Handles(m) /\ Head(inbox[m]).type = "fieldUnlocked")
         => LET ev == Head(inbox[m])
            IN (lockedFields[m][ev.fieldId] # NoLock
                  /\ lockedFields[m][ev.fieldId].userId # ev.userId)
                 => lockedFields'[m][ev.fieldId] = lockedFields[m][ev.fieldId]]_vars

\* C5: stale-clear rejection: a userTypingUpdate with isTyping false removes
\* the typing entry of the field only if the entry names the same display
\* name; after typing(F, X, true), typing(F, Y, true), typing(F, X, false)
\* the entry of F is still Y.
C5_StaleStopIsRejected ==
  [][\A m \in Conns :
       (Handles(m) /\ Head(inbox[m]).type = "userTypingUpdate")
         => LET ev == Head(inbox[m])
            IN (~ ev.isTyping /\ typingUsers[m][ev.fieldId] # ev.name)
                 => typingUsers'[m][ev.fieldId] = typingUsers[m][ev.fieldId]]_vars

\* C6: a lockField for a field that is already locked by a different
\* participant does not change the recorded lock: the holder stays the first.
C6_SecondLockDoesNotOverwrite ==
  [][\A m \in Conns :
       (Handles(m) /\ Head(inbox[m]).type = "fieldLocked")
         => LET ev == Head(inbox[m])
            IN (lockedFields[m][ev.fieldId] # NoLock
                  /\ lockedFields[m][ev.fieldId].userId # ev.userId)
                 => lockedFields'[m][ev.fieldId] = lockedFields[m][ev.fieldId]]_vars

\* the step of update task t leaves task t2 behind
Continues(t, t2, pc) ==
  /\ t2.kind = "update" /\ t2.pc = pc
  /\ t2.conn = t.conn /\ t2.userId = t.userId
  /\ t2.formId = t.formId /\ t2.fieldId = t.fieldId

\* C9: the lock does not block the update: an updateField for a field whose
\* focus another participant holds, for a field of the schema of an active
\* form, is accepted, written to form_responses and broadcast as fieldUpdated
\* to every socket of the room, the lock holder and the sender included.
C9_LockDoesNotBlockUpdate ==
  [][\A t \in tasks :
       (t.kind = "update" /\ t.locked /\ t \notin tasks')
         => CASE t.pc = "lookup" ->
                   ( /\ dbForms[t.formId].exists
                     /\ dbForms[t.formId].is_active
                     /\ t.fieldId \in dbForms[t.formId].fields )
                     => \E t2 \in tasks' : Continues(t, t2, "select")
              [] t.pc = "select" -> \E t2 \in tasks' : Continues(t, t2, "write")
              [] t.pc = "write" ->
                   dbData[t.formId].row
                     => /\ dbData'[t.formId].data[t.fieldId] = t.value
                        /\ \E t2 \in tasks' : Continues(t, t2, "emit")
              [] t.pc = "emit" ->
                   \A m \in rooms[t.formId] :
                     /\ Len(inbox'[m]) = Len(inbox[m]) + 1
                     /\ inbox'[m][Len(inbox'[m])].type = "fieldUpdated"
                     /\ inbox'[m][Len(inbox'[m])].fieldId = t.fieldId
                     /\ inbox'[m][Len(inbox'[m])].value = t.value
              [] OTHER -> FALSE]_vars

\* event ev is waiting in the inbox of page m
Waiting(m, ev) == \E i \in 1..Len(inbox[m]) : inbox[m][i] = ev

\* page a has the focus of the field, page b sent an update of it meanwhile,
\* the value is stored and its fieldUpdated has reached the sockets of both
C9_Witness ==
  \E a, b \in Conns, v \in Values :
    LET ev == FieldUpdatedEv("email", v, user[b].name, TRUE)
    IN /\ a # b
       /\ focus[a] = "email"
       /\ dbData["f1"].data["email"] = v
       /\ Waiting(a, ev)
       /\ Waiting(b, ev)

\* page m is a member of the room of form f
Member(f, m) == conn[m] = "open" /\ MapHas(SessionsOf(f), m)

\* C10: every accepted updateField produces exactly one fieldUpdated, sent to
\* every member of the room, the originator included, and a fieldUpdated is
\* emitted only for a value that form_responses has stored before.
C10_FieldUpdatedAfterPersist ==
  [][ /\ \A t \in tasks :
           (t.kind = "update" /\ t.pc = "emit" /\ t \notin tasks')
             => /\ t.written
                /\ \A m \in Conns :
                     Member(t.formId, m)
                       => inbox'[m] = Append(inbox[m],
                            FieldUpdatedEv(t.fieldId, t.value, t.userName, t.locked))
      /\ \A t2 \in tasks' \ tasks :
           (t2.kind = "update" /\ t2.written)
             => dbData'[t2.formId].data[t2.fieldId] = t2.value
      /\ \A m \in Conns :
           ( /\ Len(inbox'[m]) = Len(inbox[m]) + 1
             /\ inbox'[m][Len(inbox'[m])].type = "fieldUpdated" )
             => \E t \in tasks \ tasks' :
                  /\ t.kind = "update" /\ t.pc = "emit" /\ t.written
                  /\ inbox'[m][Len(inbox'[m])] =
                       FieldUpdatedEv(t.fieldId, t.value, t.userName, t.locked) ]_vars

\* the fieldUpdated of an update sent by page b waits at b and at another
\* member, and form_responses holds its value
C10_Witness ==
  \E a, b \in Conns, v \in Values, l \in BOOLEAN :
    LET ev == FieldUpdatedEv("email", v, user[b].name, l)
    IN /\ a # b
       /\ Member("f1", a) /\ Member("f1", b)
       /\ formResponse[b]["email"] # Undefined
       /\ dbData["f1"].data["email"] = v
       /\ Waiting(a, ev)
       /\ Waiting(b, ev)

\* C11: an updateField for a field id that is not in the current schema of
\* the form yields an error to the socket of the sender only, writes nothing
\* to form_responses and broadcasts no fieldUpdated: the handler ends there.
C11_UnknownFieldIsRejected ==
  [][\A t \in tasks :
       ( /\ t.kind = "update" /\ t.pc = "lookup" /\ t \notin tasks'
         /\ dbForms[t.formId].exists /\ dbForms[t.formId].is_active
         /\ t.fieldId \notin dbForms[t.formId].fields )
         => /\ dbData' = dbData
            /\ tasks' = tasks \ {t}
            /\ \A m \in Conns :
                 IF m = t.conn /\ conn[m] = "open"
                 THEN /\ Len(inbox'[m]) = Len(inbox[m]) + 1
                      /\ SubSeq(inbox'[m], 1, Len(inbox[m])) = inbox[m]
                      /\ inbox'[m][Len(inbox'[m])].type = "error"
                 ELSE inbox'[m] = inbox[m]]_vars

\* a page typed into a field that the schema no longer has: it got the
\* error, the other page got nothing, and form_responses has no value for it
C11_Witness ==
  \E c \in Conns :
    /\ currentForm[c] # NoForm
    /\ formResponse[c]["note"] = "A"
    /\ "note" \notin dbForms["f1"].fields
    /\ Waiting(c, ErrorEv(FieldUnknown))
    /\ dbData["f1"].data["note"] = Undefined
    /\ \A m \in Conns \ {c} :
         \A i \in 1..Len(inbox[m]) : inbox[m][i].type \notin {"fieldUpdated", "error"}

\* C12: when a database step of an updateField fails, the failure is reported
\* to the socket of the sender only and nothing is broadcast for that update:
\* a handler run that ends before its emit appends one error event to the
\* sender's socket, nothing to any other socket, and stores nothing.
C12_FailureToOriginatorOnly ==
  [][\A t \in tasks :
       ( /\ t.kind = "update" /\ t.pc # "emit"
         /\ t \notin tasks' /\ tasks' \subseteq tasks )
         => /\ dbData' = dbData
            /\ \A m \in Conns :
                 IF m = t.conn /\ conn[m] = "open"
                 THEN inbox'[m] \in {Append(inbox[m], ErrorEv(msg)) :
                                       msg \in {UpdateFailed, UpdateRejected, FieldUnknown}}
                 ELSE inbox'[m] = inbox[m]]_vars

\* a page typed a value, a query of the handler failed: the page has the
\* report, the other page has no event of it, form_responses has no value
C12_Witness ==
  \E c \in Conns :
    /\ formResponse[c]["email"] = "A"
    /\ Waiting(c, ErrorEv(UpdateFailed))
    /\ dbData["f1"].data["email"] = Undefined
    /\ \A m \in Conns \ {c} :
         /\ formResponse[m]["email"] = Undefined
         /\ inbox[m] = <<>>

\* C13: a joinForm for a form that does not exist or is inactive fails with
\* an error sent to the caller only: the handler that reads such a forms row
\* leaves activeSessions and the room as they are and sends no presence event.
C13_JoinOfUnavailableFormFails ==
  [][\A t \in tasks :
       (t.kind = "join" /\ t \notin tasks')
         => /\ (t.pc = "query" /\ ~ (dbForms[t.formId].exists /\ dbForms[t.formId].is_active))
                 => \E t2 \in tasks' \ tasks : t2.conn = t.conn /\ ~ t2.found
            /\ (t.pc = "resume" /\ ~ t.found)
                 => /\ activeSessions' = activeSessions
                    /\ rooms' = rooms
                    /\ \A m \in Conns :
                         inbox'[m] = IF m = t.conn /\ conn[m] = "open"
                                     THEN Append(inbox[m], ErrorEv(JoinRejected))
                                     ELSE inbox[m]]_vars

\* a page whose join was refused: it has the error, it is neither in the
\* registry nor in the room, and the page that joined before saw no event
C13_Witness ==
  \E c, m \in Conns :
    /\ c # m
    /\ Waiting(c, ErrorEv(JoinRejected))
    /\ ~ MapHas(SessionsOf("f1"), c)
    /\ c \notin rooms["f1"]
    /\ m \in rooms["f1"]
    /\ \A i \in 1..Len(inbox[m]) : inbox[m][i].type \notin {"userJoined", "error"}

\* C14: after an accepted joinForm the joining socket receives activeUsers
\* and every other member of the room receives userJoined, and both payloads
\* are the sessions of the room after the registration, the joiner included.
C14_JoinSnapshotIncludesJoiner ==
  [][\A t \in tasks :
       (t.kind = "join" /\ t.pc = "resume" /\ t.found /\ t \notin tasks')
         => LET users == activeSessions'[t.formId]
            IN /\ MapHas(users, t.conn)
               /\ MapGet(users, t.conn).userId = t.userId
               /\ \A m \in Conns :
                    /\ (m = t.conn /\ conn[m] = "open")
                         => inbox'[m] = Append(inbox[m], PresenceEv("activeUsers", users))
                    /\ (m # t.conn /\ Member(t.formId, m))
                         => inbox'[m] = Append(inbox[m], PresenceEv("userJoined", users))]_vars

\* two pages joined the same form and both show the same two participants
C14_Witness ==
  \E a, b \in Conns :
    /\ a # b
    /\ Member("f1", a) /\ Member("f1", b)
    /\ Len(activeUsers[a]) = 2
    /\ activeUsers[a] = activeUsers[b]
    /\ activeUsers[a] = SessionsOf("f1")
    /\ MapKeys(activeUsers[a]) = {a, b}

\* C15: when a joined connection disconnects, every remaining member of the
\* room receives userLeft with a snapshot that excludes the departed
\* connection and then unlockAllFieldsForUser for the departed participant's
\* id, whether or not the participant held a lock.
C15_DisconnectNotifiesMembers ==
  [] [ /\ \A c \in Conns, f \in Forms :
            (conn[c] = "open" /\ conn'[c] = "closed" /\ MapHas(SessionsOf(f), c))
              => \E t \in tasks' \ tasks :
                   /\ t.kind = "cleanup" /\ t.conn = c /\ t.formId = f
                   /\ t.userId = MapGet(SessionsOf(f), c).userId
       /\ \A t \in tasks :
            (t.kind = "cleanup" /\ t \notin tasks')
              => \A m \in Conns :
                   Member(t.formId, m)
                     => /\ Len(inbox'[m]) = Len(inbox[m]) + 2
                        /\ SubSeq(inbox'[m], 1, Len(inbox[m])) = inbox[m]
                        /\ inbox'[m][Len(inbox[m]) + 1].type = "userLeft"
                        /\ ~ MapHas(inbox'[m][Len(inbox[m]) + 1].activeUsers, t.conn)
                        /\ inbox'[m][Len(inbox[m]) + 2] = UnlockAllEv(t.userId) ]_vars

\* ------------------------------------------------------------------- C16
RelayTypes == {"fieldLocked", "fieldUnlocked", "userTypingUpdate"}

\* the step appends one relay event to the inbox of page m
Relayed(m) ==
  /\ Len(inbox'[m]) = Len(inbox[m]) + 1
  /\ SubSeq(inbox'[m], 1, Len(inbox[m])) = inbox[m]
  /\ inbox'[m][Len(inbox'[m])].type \in RelayTypes

\* the step is a focus, blur, key or typing-timer step of page c
Acts(c) ==
  /\ conn[c] = "open" /\ conn'[c] = "open"
  /\ Len(inbox'[c]) >= Len(inbox[c])
  /\ (focus'[c] # focus[c] \/ typingTimers'[c] # typingTimers[c])

\* the form whose room the server handler of that step addresses
ActedOn(c) ==
  IF \E fld \in FieldIds : typingTimers[c][fld] # NoTimer /\ typingTimers'[c][fld] = NoTimer
  THEN typingTimers[c][CHOOSE fld \in FieldIds :
          typingTimers[c][fld] # NoTimer /\ typingTimers'[c][fld] = NoTimer].formId
  ELSE currentForm[c].id

\* the payload of relay event ev names the user of page c
SentBy(c, ev) ==
  IF ev.type = "userTypingUpdate" THEN ev.name = user[c].name ELSE ev.userId = user[c].id

\* C16: a fieldLocked, fieldUnlocked or userTypingUpdate event is appended for
\* every member of the room except the connection whose action caused it, and
\* for nobody else; the actor never receives its own event
C16_RelayExcludesActor ==
  [] [ /\ \A c \in Conns :
            Acts(c) => \A m \in Conns : Relayed(m) <=> (m \in rooms[ActedOn(c)] \ {c})
       /\ \A m \in Conns :
            Relayed(m) => \E c \in Conns \ {m}, f \in Forms :
                            /\ conn[c] = "open"
                            /\ SentBy(c, inbox'[m][Len(inbox'[m])])
                            /\ ~ Relayed(c)
                            /\ \A r \in rooms[f] \ {c} :
                                 /\ Relayed(r)
                                 /\ inbox'[r][Len(inbox'[r])] = inbox'[m][Len(inbox'[m])]
                            /\ m \in rooms[f] ]_vars

\* page s1 has the focus of a field; both other members have the lock event
\* in their inbox and s1 has received nothing
C16_Witness ==
  /\ focus["s1"] = "email"
  /\ inbox["s1"] = <<>>
  /\ \A m \in {"s2", "s3"} :
       /\ Len(inbox[m]) = 1
       /\ inbox[m][1] = FieldLockedEv("email", user["s1"].name, user["s1"].id)

\* ------------------------------------------------------------------- C17
\* C17: no two sessions of a room have the same connection id; a joinForm of
\* a connection that is already registered for the form replaces its entry,
\* so the room has the same set of connections as after the first join
C17_DuplicateJoinReplaces ==
  [] [ /\ \A f \in Forms :
            \A i, j \in 1..Len(SessionsOf(f)') :
              SessionsOf(f)'[i].socketId = SessionsOf(f)'[j].socketId => i = j
       /\ \A t \in tasks :
            ( /\ t.kind = "join" /\ t.pc = "resume" /\ t.found /\ t \notin tasks'
              /\ MapHas(SessionsOf(t.formId), t.conn) )
              => /\ MapKeys(SessionsOf(t.formId)') = MapKeys(SessionsOf(t.formId))
                 /\ Len(SessionsOf(t.formId)') = Len(SessionsOf(t.formId))
                 /\ MapGet(SessionsOf(t.formId)', t.conn).userId = t.userId ]_vars

\* page s1 joined form f1 twice (ids 1 and 2) and both handlers have run; no
\* other page ever registered; the room has the one entry of s1
C17_Witness ==
  /\ conn["s1"] = "open" /\ conn["s2"] = "open"
  /\ tasks = {}
  /\ nextId = 3
  /\ Len(SessionsOf("f1")) = 1
  /\ SessionsOf("f1")[1].socketId = "s1"
  /\ SessionsOf("f1")[1].userId = 2

\* ------------------------------------------------------------------- C18
\* event a of an inbox is the fieldUpdated of an updateField that the server
\* took up while no other page had the focus of the field (history field
\* locked), and event b is the fieldLocked of another user for that field:
\* where no focus is ever released, the lockField of b was processed after
\* the updateField of a
ProcessedBefore(a, b) ==
  /\ a.type = "fieldUpdated" /\ ~ a.locked
  /\ b.type = "fieldLocked"
  /\ b.fieldId = a.fieldId
  /\ b.name # a.name

\* C18: per-recipient ordering: when the server processes action a1 and then
\* a2 on the same room, a recipient of both events receives a1's event first;
\* here a1 is an updateField (its handler awaits its queries before it emits)
\* and a2 a lockField (relayed synchronously)
C18_ProcessingOrderKept ==
  \A m \in Conns :
    \A i, j \in 1..Len(inbox[m]) :
      ProcessedBefore(inbox[m][i], inbox[m][j]) => i < j

\* ------------------------------------------------------------------- C19
TerminalTypes == {"formDeactivated", "formDeleted"}

FieldEventTypes == {"fieldUpdated", "fieldLocked", "fieldUnlocked", "userTypingUpdate"}

\* C19: the notification of a deactivation or deletion is terminal: no member
\* of the room is sent a field event (fieldUpdated, fieldLocked,
\* fieldUnlocked, userTypingUpdate) of the form after it
C19_TerminationIsTerminal ==
  \A m \in Conns :
    \A i, j \in 1..Len(inbox[m]) :
      (inbox[m][i].type \in TerminalTypes /\ inbox[m][j].type \in FieldEventTypes)
        => j < i

\* ------------------------------------------------------------------- C20
\* C20: after a member has applied formStructureUpdated, its lock state and
\* typing state name no field id that is absent from the new field list
C20_SchemaChangePrunesState ==
  [][\A m \in Conns :
       (Handles(m) /\ Head(inbox[m]).type = "formStructureUpdated")
         => \A fld \in FieldIds \ Head(inbox[m]).fields :
              /\ lockedFields'[m][fld] = NoLock
              /\ typingUsers'[m][fld] = NoTyper]_vars

\* ------------------------------------------------------------------- C21
\* C21: a lockField or userTyping for a field id that is not in the form's
\* current schema is rejected: no fieldLocked or userTypingUpdate event is
\* sent to a member for a field that the stored field list of the member's
\* form does not have
C21_UnknownFieldNotRelayed ==
  [][\A m \in Conns :
       (Relayed(m) /\ inbox'[m][Len(inbox'[m])].type \in {"fieldLocked", "userTypingUpdate"})
         => \E f \in Forms : /\ m \in rooms[f]
                             /\ inbox'[m][Len(inbox'[m])].fieldId \in dbForms[f].fields]_vars

\* ------------------------------------------------------------------- C22
\* the step ends the run of handler t with an error report: a joinForm that
\* found no active form, or an updateField that stops before its emit
Refused(t) ==
  /\ t \notin tasks' /\ tasks' \subseteq tasks
  /\ \/ t.kind = "join" /\ t.pc = "resume" /\ ~ t.found
     \/ t.kind = "update" /\ t.pc # "emit"

\* page c has an error report waiting or the step appends one
Reported(c) == \E i \in 1..Len(inbox[c]) : inbox[c][i].type = "error"

\* C22: errors are non-fatal and local: a refused joinForm or updateField
\* leaves activeSessions, the rooms and the connections as they are, and the
\* updateField of a sender that was sent an error before, for a field of the
\* schema of an active form, passes the checks of the handler (it goes on to
\* its queries, or ends with the report of a failed query)
C22_ErrorsLeaveRegistry ==
  [][\A t \in tasks :
       /\ Refused(t) => /\ activeSessions' = activeSessions
                        /\ rooms' = rooms
                        /\ conn' = conn
       /\ ( /\ t.kind = "update" /\ t.pc = "lookup" /\ t \notin tasks'
            /\ Reported(t.conn)
            /\ dbForms[t.formId].exists /\ dbForms[t.formId].is_active
            /\ t.fieldId \in dbForms[t.formId].fields )
            => \/ \E t2 \in tasks' : Continues(t, t2, "select")
               \/ inbox'[t.conn] = Append(inbox[t.conn], ErrorEv(UpdateFailed))]_vars

\* the typing page is registered and in the room, was sent the report of a
\* failed update, and the fieldUpdated of its next update follows the report
C22_Witness ==
  /\ Member("f1", Typist)
  /\ Typist \in rooms["f1"]
  /\ Len(inbox[Typist]) = 2
  /\ inbox[Typist][1] = ErrorEv(UpdateFailed)
  /\ inbox[Typist][2].type = "fieldUpdated"
  /\ dbData["f1"].data["email"] = "a"

\* ------------------------------------------------------------------- C23
\* the row of form_responses is no longer the one handler t read: another
\* handler has stored a value of another field since
Stale(t) ==
  /\ dbData[t.formId].row
  /\ \E fld \in FieldIds \ {t.fieldId} : dbData[t.formId].data[fld] # t.data[fld]

\* C23: optimistic concurrency control: an updateField is applied only if the
\* stored response is the version it was based on; an update based on
\* outdated data is rejected and not applied, so it never overwrites a
\* concurrent update
C23_StaleUpdateIsRejected ==
  [][\A t \in tasks :
       (t.kind = "update" /\ t.pc = "write" /\ t \notin tasks' /\ Stale(t))
         => dbData' = dbData]_vars

\* ------------------------------------------------------------------- C24
\* C24: field locking prevents simultaneous direct edits: two different
\* pages of one form never have the focus of the same field, with its input
\* enabled, at the same time
C24_NoSimultaneousEdit ==
  \A a, b \in Conns, fld \in FieldIds :
    ( /\ a # b
      /\ conn[a] = "open" /\ conn[b] = "open"
      /\ currentForm[a] # NoForm /\ currentForm[b] # NoForm
      /\ currentForm[a].id = currentForm[b].id
      /\ focus[a] = fld /\ ~ IsLocked(a, fld) )
      => ~ (focus[b] = fld /\ ~ IsLocked(b, fld))

\* ------------------------------------------------------------------- C25
\* C25: lock round trip: a member that handles the fieldLocked of participant
\* P for a field it shows as unlocked records the field as locked by P and
\* changes no other field; when it then handles P's fieldUnlocked the field
\* is unlocked again and its lock state is what it was before the fieldLocked
C25_LockRoundTrip ==
  [][\A m \in Conns :
       Handles(m)
         => LET ev == Head(inbox[m])
                before == [lockedFields[m] EXCEPT ![ev.fieldId] = NoLock]
            IN /\ (ev.type = "fieldLocked" /\ lockedFields[m][ev.fieldId] = NoLock)
                    => lockedFields'[m] =
                         [lockedFields[m] EXCEPT
                            ![ev.fieldId] = [lockedBy |-> ev.name, userId |-> ev.userId]]
               /\ ( /\ ev.type = "fieldUnlocked"
                    /\ lockedFields[m][ev.fieldId] # NoLock
                    /\ lockedFields[m][ev.fieldId].userId = ev.userId )
                    => lockedFields'[m] = before]_vars

\* page s1 took and released the focus of email; page s3 has handled both
\* events (s2 still has them waiting) and shows no lock again
C25_Witness ==
  /\ focus["s1"] = NoField
  /\ inbox["s2"] = <<FieldLockedEv("email", user["s1"].name, user["s1"].id),
                     FieldUnlockedEv("email", user["s1"].id)>>
  /\ inbox["s3"] = <<>>
  /\ conn["s3"] = "open"
  /\ lockedFields["s3"] = EmptyLocks

\* ------------------------------------------------------------------- C26
\* C26: cleanup order: the locks of a participant are released before its
\* session is removed from the registry: in the step that removes the session
\* of a connection from activeSessions no page shows a lock of that user
C26_LocksReleasedBeforeRemoval ==
  [][\A f \in Forms, c \in Conns :
       (MapHas(SessionsOf(f), c) /\ ~ MapHas(SessionsOf(f)', c))
         => LockedAt(MapGet(SessionsOf(f), c).userId) = {}]_vars

\* ------------------------------------------------------------------- C27
\* the disconnect closure of connection c for form f has not emitted yet
CleanupPending(c, f) ==
  \E t \in tasks : t.kind = "cleanup" /\ t.conn = c /\ t.formId = f

\* C27: disconnect cleanup always completes: the disconnect of a joined
\* connection removes its session and starts the closure; the closure ends
\* in every case, its title query failed or not, and when it ends it has sent
\* userLeft to the other sockets of the room and unlockAllFieldsForUser for
\* the departed user to the room
C27_CleanupCompletes ==
  /\ [][ /\ \A c \in Conns, f \in Forms :
              (conn[c] = "open" /\ conn'[c] = "closed" /\ MapHas(SessionsOf(f), c))
                => ~ MapHas(SessionsOf(f)', c) /\ CleanupPending(c, f)'
         /\ \A t \in tasks :
              (t.kind = "cleanup" /\ t \notin tasks')
                => \A m \in rooms[t.formId] :
                     /\ Len(inbox'[m]) = Len(inbox[m]) + 2
                     /\ inbox'[m][Len(inbox[m]) + 1].type = "userLeft"
                     /\ inbox'[m][Len(inbox[m]) + 2] = UnlockAllEv(t.userId) ]_vars
  /\ \A c \in Conns, f \in Forms : CleanupPending(c, f) ~> ~ CleanupPending(c, f)

\* page s1 disconnected while holding the focus of email; its closure has run
\* and page s3 has the two events of it
C27_Witness ==
  /\ conn["s1"] = "closed"
  /\ ~ CleanupPending("s1", "f1")
  /\ ~ MapHas(SessionsOf("f1"), "s1")
  /\ conn["s3"] = "open"
  /\ \E i \in 1..Len(inbox["s3"]) : inbox["s3"][i].type = "userLeft"
  /\ Waiting("s3", UnlockAllEv(1))

\* ------------------------------------------------------------------- C28
\* C28: the server does not read-modify-write the stored response: the write
\* of an accepted updateField of field F changes the stored value of F only,
\* so the values two handlers store for two different fields are both kept
C28_WriteChangesOneField ==
  [][\A t \in tasks :
       (t.kind = "update" /\ t.pc = "write" /\ t \notin tasks' /\ dbData[t.formId].row)
         => \A fld \in FieldIds \ {t.fieldId} :
              dbData'[t.formId].data[fld] = dbData[t.formId].data[fld]]_vars

\* ------------------------------------------------------------------- C29
\* the display name of the participant of departed session d
DepartedName(d) ==
  JoinedUsers[CHOOSE i \in 1..Len(JoinedUsers) : JoinedUsers[i].userId = d.userId].userName

\* C29: typing cleanup on departure: once the events of a participant's
\* disconnect have been delivered to a remaining page, the page shows that
\* participant as typing in no field (typing state is kept by display name:
\* the participants compared are those whose name no other participant has)
C29_NoTypingOfDeparted ==
  \A d \in departed, m \in Conns :
    ( /\ conn[m] = "open"
      /\ CleanupDelivered(d, m)
      /\ \A i \in 1..Len(JoinedUsers) :
           JoinedUsers[i].userId # d.userId => JoinedUsers[i].userName # DepartedName(d) )
      => \A fld \in FieldIds : typingUsers[m][fld] # DepartedName(d)

\* ------------------------------------------------------------------- C30
\* C30: operations on different forms are independent: a join registers
\* nothing in the registry of another form, and the lock, unlock or typing
\* event of an action aimed at form A is sent to no page that is working on
\* a different form B, a page that viewed A earlier included
C30_FormsAreIndependent ==
  [][ /\ \A t \in tasks :
           (t.kind = "join" /\ t.pc = "resume" /\ t \notin tasks')
             => \A f \in Forms \ {t.formId} : SessionsOf(f)' = SessionsOf(f)
      /\ \A c, m \in Conns :
           (Acts(c) /\ Relayed(m) /\ currentForm[m] # NoForm)
             => currentForm[m].id = ActedOn(c) ]_vars

\* ------------------------------------------------------------------- C31
\* C31: a page is in the form view (it shows the form and sends field events)
\* only if the registry has accepted its join: once its joinForm handler has
\* run, a page in the form view has a session in the room of its form, and a
\* page whose joinForm was refused is not in the form view
C31_JoinedOnlyAfterAccept ==
  \A c \in Conns :
    ( /\ conn[c] = "open"
      /\ currentForm[c] # NoForm
      /\ ~ \E t \in tasks : t.kind = "join" /\ t.conn = c )
      => MapHas(SessionsOf(currentForm[c].id), c)

\* ------------------------------------------------------------------- C32
\* C32: releasing all locks of participant P removes every lock held by P
\* and nothing else: a page that handles unlockAllFieldsForUser for P shows
\* no lock of P afterwards, and every lock of another holder is unchanged
C32_UnlockAllRemovesOnlyHolder ==
  [][\A m \in Conns :
       (Handles(m) /\ Head(inbox[m]).type = "unlockAllFieldsForUser")
         => \A fld \in FieldIds :
              lockedFields'[m][fld] =
                IF lockedFields[m][fld].userId = Head(inbox[m]).userId
                THEN NoLock
                ELSE lockedFields[m][fld]]_vars

\* page s3 showed email locked by s1 and note locked by s2; s1 disconnected
\* and s3 has handled the cleanup: email is free, note is still s2's
C32_Witness ==
  /\ conn["s3"] = "open"
  /\ \E d \in departed : d.userId = 1 /\ "s3" \in d.lockedAt /\ CleanupDelivered(d, "s3")
  /\ lockedFields["s3"]["email"] = NoLock
  /\ lockedFields["s3"]["note"] # NoLock
  /\ lockedFields["s3"]["note"].userId = 2

\* ------------------------------------------------------------------- C33
\* C33: once the deletion of a form has completed (its forms row is gone and
\* the DELETE handler has ended), activeSessions holds no room and no session
\* for the form, whatever joinForm handlers ran beside the deletion
C33_NoRoomOfDeletedForm ==
  \A f \in Forms :
    ( /\ ~ dbForms[f].exists
      /\ ~ \E t \in tasks : t.kind = "delete" /\ t.formId = f )
      => f \notin DOMAIN activeSessions

\* ------------------------------------------------------------------- C34
\* no handler is suspended and every open page has handled all its events
Quiescent ==
  /\ tasks = {}
  /\ \A c \in Conns : conn[c] = "open" => inbox[c] = <<>>

\* C34: value convergence: once all updateField requests and their events
\* have been processed, the value every member shows for every field is the
\* value form_responses has stored for it, also after a refused update
C34_ValuesConverge ==
  Quiescent
    => \A f \in Forms, m \in Conns :
         (Member(f, m) /\ currentForm[m] # NoForm /\ currentForm[m].id = f)
           => \A fld \in FieldIds : formResponse[m][fld] = dbData[f].data[fld]

\* ------------------------------------------------------------------- C35
\* m is in the room of f and shows f
Viewing(f, m) ==
  /\ Member(f, m)
  /\ currentForm[m] # NoForm
  /\ currentForm[m].id = f

\* s1 and s2 are in the room of f1 as in InitPair; s3 is connected and has
\* not joined yet
InitLate ==
  /\ conn = [c \in Conns |-> "open"]
  /\ rooms = [f \in Forms |-> IF f = "f1" THEN {"s1", "s2"} ELSE {}]
  /\ activeSessions = ("f1" :> PairUsers)
  /\ dbForms = [f \in Forms |->
                  IF f = "f1"
                  THEN [exists |-> TRUE, is_active |-> TRUE, fields |-> FieldIds]
                  ELSE [exists |-> FALSE, is_active |-> FALSE, fields |-> {}]]
  /\ dbData = [f \in Forms |-> [row |-> f = "f1", data |-> EmptyResponse]]
  /\ tasks = {}
  /\ inbox = [c \in Conns |-> <<>>]
  /\ user = [c \in Conns |-> IF c = "s3" THEN NoUser ELSE [id |-> IdOf(c), name |-> NameOf(c)]]
  /\ currentForm = [c \in Conns |->
                      IF c = "s3" THEN NoForm ELSE [id |-> "f1", fields |-> FieldIds]]
  /\ formResponse = [c \in Conns |-> EmptyResponse]
  /\ activeUsers = [c \in Conns |-> IF c = "s3" THEN <<>> ELSE PairUsers]
  /\ lockedFields = [c \in Conns |-> EmptyLocks]
  /\ typingUsers = [c \in Conns |-> EmptyTyping]
  /\ focus = [c \in Conns |-> NoField]
  /\ typingTimers = [c \in Conns |-> EmptyTimers]
  /\ nextId = 3
  /\ expected = [f \in Forms |-> IF f = "f1" THEN {"s1", "s2"} ELSE {}]
  /\ departed = {}

\* the two editors lock and unlock fields while a third page joins the room
NextLate ==
  \/ JoinForm("s3", "f1", NameOf("s3"))
  \/ \E t \in tasks : JoinQuery(t)
  \/ \E t \in tasks : JoinResume(t)
  \/ \E c \in Editors : FocusField(c, FieldOf(c))
  \/ \E c \in Editors : BlurField(c)
  \/ \E c \in Conns : Deliver(c)

SpecLate == InitLate /\ [][NextLate]_vars

\* C35: lock view agreement: at quiescence all members of a room other than
\* the holder of a field record the same lock entry for it, a member that
\* joined after the lock was acquired included
C35_LockViewsAgree ==
  Quiescent
    => \A f \in Forms, fld \in FieldIds, m1 \in Conns, m2 \in Conns :
         ( /\ Viewing(f, m1) /\ focus[m1] # fld
           /\ Viewing(f, m2) /\ focus[m2] # fld )
           => lockedFields[m1][fld] = lockedFields[m2][fld]

\* ------------------------------------------------------------------- C36
\* pages join the room of f1 and disconnect in any order
NextChurn ==
  \/ \E c \in Conns : JoinForm(c, "f1", NameOf(c))
  \/ \E t \in tasks : JoinQuery(t)
  \/ \E t \in tasks : JoinResume(t)
  \/ \E c \in Conns : Disconnect(c)
  \/ \E t \in tasks : CleanupEmit(t)
  \/ \E c \in Conns : Deliver(c)

SpecChurn == InitLate /\ [][NextChurn]_vars

\* C36: presence convergence: after joins and disconnects on a room, once
\* every handler has finished and every event has been delivered, the
\* activeUsers list of every current member equals the room's registry
C36_PresenceConverges ==
  Quiescent
    => \A f \in Forms, m \in Conns :
         Viewing(f, m) => activeUsers[m] = SessionsOf(f)

\* both earlier members have gone and their cleanups have run; the late
\* joiner is the only member left and has handled every event
C36_Witness ==
  /\ Quiescent
  /\ Viewing("f1", "s3")
  /\ conn["s1"] = "closed" /\ conn["s2"] = "closed"
  /\ Cardinality({d \in departed : d.formId = "f1"}) = 2
  /\ activeUsers["s3"] = <<Session("s3", user["s3"].id, "X")>>

\* ------------------------------------------------------------------- C37
\* the rooms in whose registry the connection c has a session
RegisteredIn(c) == {f \in DOMAIN activeSessions : MapHas(activeSessions[f], c)}

\* both forms exist: s1 goes from one form to the other, s2 stays in f1, and
\* either page may disconnect
NextRooms ==
  \/ \E f \in Forms : JoinForm("s1", f, NameOf("s1"))
  \/ JoinForm("s2", "f1", NameOf("s2"))
  \/ \E t \in tasks : JoinQuery(t)
  \/ \E t \in tasks : JoinResume(t)
  \/ LeaveForm("s1")
  \/ \E c \in Conns : Disconnect(c)
  \/ \E t \in tasks : CleanupEmit(t)
  \/ \E c \in Conns : Deliver(c)

SpecRooms == InitForms /\ [][NextRooms]_vars

\* a cleanup closure t finishes in this step
Finishes(t) == t \in tasks /\ t \notin tasks' /\ t.kind = "cleanup"

\* C37 (emits): the closure of a disconnect sends userLeft and then
\* unlockAllFieldsForUser to every page of its room
C37_ClosureEmits ==
  \A t \in tasks : Finishes(t)
    => \A m \in rooms[t.formId] :
         /\ Len(inbox'[m]) = Len(inbox[m]) + 2
         /\ inbox'[m][Len(inbox[m]) + 1].type = "userLeft"
         /\ inbox'[m][Len(inbox[m]) + 2].type = "unlockAllFieldsForUser"
         /\ inbox'[m][Len(inbox[m]) + 2].userId = t.userId

\* C37: a disconnect removes the connection from every room it is registered
\* in and starts, for each of them, the closure that emits userLeft and
\* unlockAllFieldsForUser to that room; a disconnect of a connection
\* registered in no room changes no room and starts no closure
C37_DisconnectLeavesEveryRoom ==
  [][\A c \in Conns :
       (conn[c] = "open" /\ conn'[c] = "closed")
         => /\ \A f \in DOMAIN activeSessions' : ~ MapHas(activeSessions'[f], c)
            /\ \A f \in RegisteredIn(c) :
                 \E t \in tasks' \ tasks : t.kind = "cleanup" /\ t.formId = f /\ t.conn = c
            /\ \A t \in tasks' \ tasks : t.kind = "cleanup" /\ t.formId \in RegisteredIn(c)
            /\ RegisteredIn(c) = {} => (activeSessions' = activeSessions /\ tasks' = tasks)
     /\ C37_ClosureEmits]_vars

\* s1 was registered in both rooms and has disconnected; both closures have
\* run and s2, still connected, has handled what they sent
C37_Witness ==
  /\ conn["s1"] = "closed" /\ conn["s2"] = "open"
  /\ {d.formId : d \in departed} = Forms
  /\ ~ \E t \in tasks : t.kind = "cleanup"
  /\ \E f \in Forms : Member(f, "s2")
  /\ inbox["s2"] = <<>>

\* ------------------------------------------------------------------- C38
\* C38: a page that has left its form through the leave/back action and has
\* not joined again keeps an empty activeUsers list, no locks, no typing
\* marks and a reset form response: no event of the room it left is applied
C38_LeftPageStaysReset ==
  \A c \in Conns :
    (conn[c] = "open" /\ currentForm[c] = NoForm)
      => /\ activeUsers[c] = <<>>
         /\ lockedFields[c] = EmptyLocks
         /\ typingUsers[c] = EmptyTyping
         /\ formResponse[c] = EmptyResponse

====
